---- MODULE Spec2Model ----
(***************************************************************************)
(* Model of base/strings/unicode.h (mozc): the UTF-8 character iterator,   *)
(* the character view (front/back), the counting utilities and FrontChar.  *)
(* Bytes are integers 0..255, pointers are 0-based offsets into the        *)
(* buffer, a string_view is a span [ptr, size] over the buffer.            *)
(* A char32_t is held as the two's-complement reading of its 32 bits, so   *)
(* the values 2^31 .. 2^32-1 appear as -2^31 .. -1 (FFFFFFFF is -1).       *)
(* utf8_internal::{OneCharLen, Decode, Encode} live in utf8_internal.h,    *)
(* which unicode.h only includes; they follow the written specification.   *)
(***************************************************************************)
EXTENDS Integers, Sequences, FiniteSets, TLC

\* ------------------------------------------------------------------ bounds
\* longest byte buffer explored
MaxLen == 4
\* largest threshold n passed to AtLeastCharsLen
MaxN == 5
\* most code points appended to one destination string
MaxAppend == 2

\* ------------------------------------------------------- program constants
kReplacementCharacter == 65533
kMaxCodePoint == 1114111
kAsciiMax == 127

\* Representative bytes: ASCII 'A'; continuation bytes 80 and A0; the
\* overlong two-byte lead C0 and the valid one C2; three-byte leads E0
\* (E0 80 xx overlong, E0 A0 xx valid) and ED (ED 80 xx valid, ED A0 xx a
\* surrogate); four-byte leads F0 (F0 80 .. overlong, F0 A0 .. valid) and
\* F4 (F4 80 .. valid, F4 A0 .. above 10FFFF); the invalid lead FF.
Bytes == {65, 128, 160, 192, 194, 224, 237, 240, 244, 255}

RECURSIVE SeqsUpTo(_)
SeqsUpTo(n) ==
  IF n = 0 THEN {<< >>}
  ELSE LET shorter == SeqsUpTo(n - 1)
       IN shorter \cup {Append(s, b) : s \in {t \in shorter : Len(t) = n - 1}, b \in Bytes}

Buffers == SeqsUpTo(MaxLen)

\* Code points handed to the encoder: both sides of every length boundary,
\* of the surrogate range and of the upper limit, and FFFFFFFF (held as -1).
CodePoints ==
  {0, 65, 127, 128, 2047, 2048, 55295, 55296, 57343, 57344, 65533, 65535,
   65536, 131072, 1114111, 1114112, -1}

VARIABLES sv, charSigned, ptr, last, dr, dest, args, idx, op, res

vars == <<sv, charSigned, ptr, last, dr, dest, args, idx, op, res>>

\* ------------------------------------------------------ utf8_internal part
IsScalar(v) == v >= 0 /\ v <= kMaxCodePoint /\ ~(v >= 55296 /\ v <= 57343)

IsTrailingByte(b) == b >= 128 /\ b <= 191

\* Length implied by the leading byte; stray continuation bytes and
\* 11111xxx fall back to 1.
OneCharLen(b) ==
  IF b <= 127 THEN 1
  ELSE IF b >= 192 /\ b <= 223 THEN 2
  ELSE IF b >= 224 /\ b <= 239 THEN 3
  ELSE IF b >= 240 /\ b <= 247 THEN 4
  ELSE 1

DecodeError == [code_point |-> kReplacementCharacter, bytes_seen |-> 1, ok |-> FALSE]

\* A default-constructed DecodeResult (iterator built on an empty range).
DefaultDecodeResult == [code_point |-> 0, bytes_seen |-> 0, ok |-> FALSE]

\* Value assembled from the low bits of the lead byte s[first+1] and the low
\* six bits of the L-1 bytes that follow it.
AssembledValue(s, first, L) ==
  LET b(i) == s[first + i]
  IN CASE L = 1 -> b(1)
       [] L = 2 -> (b(1) - 192) * 64 + (b(2) - 128)
       [] L = 3 -> (b(1) - 224) * 4096 + (b(2) - 128) * 64 + (b(3) - 128)
       [] L = 4 -> (b(1) - 240) * 262144 + (b(2) - 128) * 4096
                   + (b(3) - 128) * 64 + (b(4) - 128)

\* Smallest value that needs L bytes; anything below it is overlong.
MinValueOfLen(L) ==
  CASE L = 1 -> 0 [] L = 2 -> 128 [] L = 3 -> 2048 [] L = 4 -> 65536

\* utf8_internal::Decode(first, last) over bytes s[first+1 .. lastp];
\* REQUIRES first < lastp.
Decode(s, first, lastp) ==
  LET lead == s[first + 1]
      L == OneCharLen(lead)
  IN IF L = 1
     THEN IF lead <= 127
          THEN [code_point |-> lead, bytes_seen |-> 1, ok |-> TRUE]
          ELSE DecodeError
     ELSE IF lastp - first < L THEN DecodeError
     ELSE IF \E i \in 2..L : ~IsTrailingByte(s[first + i]) THEN DecodeError
     ELSE LET v == AssembledValue(s, first, L)
          IN IF v < MinValueOfLen(L) \/ ~IsScalar(v)
             THEN DecodeError
             ELSE [code_point |-> v, bytes_seen |-> L, ok |-> TRUE]

\* utf8_internal::Encode(cp): canonical minimal encoding, or the encoding of
\* U+FFFD for a surrogate or a value above 10FFFF.
Encode(cp) ==
  LET v == IF IsScalar(cp) THEN cp ELSE kReplacementCharacter
  IN IF v < 128 THEN <<v>>
     ELSE IF v < 2048 THEN <<192 + (v \div 64), 128 + (v % 64)>>
     ELSE IF v < 65536
          THEN <<224 + (v \div 4096), 128 + ((v \div 64) % 64), 128 + (v % 64)>>
     ELSE <<240 + (v \div 262144), 128 + ((v \div 4096) % 64),
            128 + ((v \div 64) % 64), 128 + (v % 64)>>

\* ------------------------------------------------------- Utf8CharIterator
\* An iterator is [ptr, last, dr]; the buffer it points into is passed along.

\* Decode(): refresh dr_ unless the iterator is at the end.
IterDecodeClipped(s, it) ==
  IF it.ptr /= it.last
  THEN LET d == Decode(s, it.ptr, it.last)
           clip == IF it.last - it.ptr < OneCharLen(s[it.ptr + 1])
                   THEN it.last - it.ptr ELSE OneCharLen(s[it.ptr + 1])
       IN [it EXCEPT !.dr = IF d.ok THEN d ELSE [d EXCEPT !.bytes_seen = clip]]
  ELSE it

IterDecode(s, it) ==
  IF it.ptr /= it.last
  THEN [it EXCEPT !.dr = Decode(s, it.ptr, it.last)]
  ELSE it

\* Utf8CharIterator(first, last)
IterNew(s, first, lastp) ==
  IterDecode(s, [ptr |-> first, last |-> lastp, dr |-> DefaultDecodeResult])

\* operator++ : advance by the bytes of the previous decode, decode again.
IterIncNoDecode(s, it) == [it EXCEPT !.ptr = it.ptr + it.dr.bytes_seen]

IterInc(s, it) == IterDecode(s, [it EXCEPT !.ptr = it.ptr + it.dr.bytes_seen])

\* operator* in code point mode and in substring mode
Deref32(it) == it.dr.code_point

DerefSv(it) == [ptr |-> it.ptr, size |-> it.dr.bytes_seen]

\* Utf8AsCharsBase::begin() / end() / EndPtr()
EndPtr(s) == Len(s)

Begin(s) == IterNew(s, 0, EndPtr(s))

End(s) == IterNew(s, EndPtr(s), EndPtr(s))

\* the iterator held in the state
It == [ptr |-> ptr, last |-> last, dr |-> dr]

NoSpan == [ptr |-> -1, size |-> 0]

NoRes == [cp |-> 0, view |-> NoSpan, rest |-> NoSpan, n |-> 0, u32 |-> << >>,
          searched |-> FALSE, fatal |-> FALSE, ub |-> FALSE]

\* Last position of "for (auto c : Utf8AsChars(s))": the iterator whose
\* increment compares equal to end().  REQUIRES s non-empty.
RECURSIVE IterLast(_, _)
IterLast(s, it) ==
  LET nx == IterInc(s, it)
  IN IF nx.ptr >= End(s).ptr THEN it ELSE IterLast(s, nx)

\* ------------------------------------------------- whole-string utilities
\* IsValidUtf8: every decode from start to end is well formed.
RECURSIVE IsValidFrom(_, _)
IsValidFrom(s, it) ==
  IF it.ptr = it.last THEN TRUE
  ELSE it.dr.ok /\ IsValidFrom(s, IterInc(s, it))

IsValidUtf8(s) == IsValidFrom(s, Begin(s))

\* Utf8ToUtf32: the code points of a full forward decode.
RECURSIVE Utf8ToUtf32From(_, _)
Utf8ToUtf32From(s, it) ==
  IF it.ptr = it.last THEN << >>
  ELSE <<Deref32(it)>> \o Utf8ToUtf32From(s, IterInc(s, it))

Utf8ToUtf32(s) == Utf8ToUtf32From(s, Begin(s))

\* CharsLen loop.  Stepping past last makes "first != last" stay true and
\* reads outside the buffer: undefined behaviour, reported as ub.
RECURSIVE CharsLenBytes(_, _, _)
CharsLenBytes(s, first, result) ==
  IF first = Len(s) THEN [n |-> result, ub |-> FALSE]
  ELSE IF first > Len(s) THEN [n |-> result, ub |-> TRUE]
  ELSE CharsLenBytes(s, first + 1, result + 1)

RECURSIVE CharsLenFrom(_, _, _)
CharsLenFrom(s, first, result) ==
  IF first = Len(s) THEN [n |-> result, ub |-> FALSE]
  ELSE IF first > Len(s) THEN [n |-> result, ub |-> TRUE]
  ELSE CharsLenFrom(s, first + OneCharLen(s[first + 1]), result + 1)

CharsLen(s) == CharsLenFrom(s, 0, 0)

\* AtLeastCharsLen loop: while (first != last && i < n)
RECURSIVE AtLeastCharsLenOffByOne(_, _, _, _)
AtLeastCharsLenOffByOne(s, first, i, n) ==
  IF first = Len(s) \/ ~(i <= n) THEN [n |-> i, ub |-> FALSE]
  ELSE IF first > Len(s) THEN [n |-> i, ub |-> TRUE]
  ELSE AtLeastCharsLenOffByOne(s, first + OneCharLen(s[first + 1]), i + 1, n)

RECURSIVE AtLeastCharsLenFrom(_, _, _, _)
AtLeastCharsLenFrom(s, first, i, n) ==
  IF first = Len(s) \/ ~(i < n) THEN [n |-> i, ub |-> FALSE]
  ELSE IF first > Len(s) THEN [n |-> i, ub |-> TRUE]
  ELSE AtLeastCharsLenFrom(s, first + OneCharLen(s[first + 1]), i + 1, n)

AtLeastCharsLen(s, n) == AtLeastCharsLenFrom(s, 0, 0, n)

\* absl::ClippedSubstr(s, pos, n); n = -1 stands for npos.
ClippedSubstr(s, pos, n) ==
  LET p == IF pos > Len(s) THEN Len(s) ELSE pos
      avail == Len(s) - p
  IN [ptr |-> p, size |-> IF n = -1 \/ n > avail THEN avail ELSE n]

\* FrontChar(s) = <first char, rest>
FrontCharOneByte(s) ==
  IF s = << >> THEN [first |-> NoSpan, rest |-> NoSpan]
  ELSE [first |-> ClippedSubstr(s, 0, 1), rest |-> ClippedSubstr(s, 1, -1)]

FrontChar(s) ==
  IF s = << >> THEN [first |-> NoSpan, rest |-> NoSpan]
  ELSE LET len == OneCharLen(s[1])
       IN [first |-> ClippedSubstr(s, 0, len), rest |-> ClippedSubstr(s, len, -1)]

\* StrAppendChar32(dest, cp): dest->append(ec.data(), ec.size())
StrAppendChar32Short(d, cp) == d \o SubSeq(Encode(cp), 1, Len(Encode(cp)) - 1)

StrAppendChar32(d, cp) == d \o Encode(cp)

\* -------------------------------------------------- Utf8AsCharsBase::back
\* sv_.back() is a char: promoted to int it is negative for bytes >= 80
\* when the build's char is signed.
CharValue(b, signed) == IF signed /\ b >= 128 THEN b - 256 ELSE b

\* trial order of the candidate sizes
BackOrderNoSingle == <<3, 2, 4>>

BackOrder == <<3, 2, 4, 1>>

\* The for loop over the candidate sizes: the first size that fits in the
\* buffer and whose decode from last - size sees exactly size bytes.
BackSearchLoose(s, order) ==
  LET lastp == EndPtr(s)
      hits == {i \in 1..Len(order) :
                 /\ order[i] <= Len(s)
                 /\ Decode(s, lastp - order[i], lastp).bytes_seen <= order[i]}
  IN IF hits = {}
     THEN [cp |-> 0, view |-> NoSpan, searched |-> TRUE, fatal |-> TRUE]
     ELSE LET i == CHOOSE j \in hits : \A k \in hits : j <= k
              d == Decode(s, lastp - order[i], lastp)
          IN [cp |-> d.code_point,
              view |-> [ptr |-> lastp - order[i], size |-> d.bytes_seen],
              searched |-> TRUE, fatal |-> FALSE]

BackSearch(s, order) ==
  LET lastp == EndPtr(s)
      hits == {i \in 1..Len(order) :
                 /\ order[i] <= Len(s)
                 /\ Decode(s, lastp - order[i], lastp).bytes_seen = order[i]}
  IN IF hits = {}
     THEN [cp |-> 0, view |-> NoSpan, searched |-> TRUE, fatal |-> TRUE]
     ELSE LET i == CHOOSE j \in hits : \A k \in hits : j <= k
              d == Decode(s, lastp - order[i], lastp)
          IN [cp |-> d.code_point,
              view |-> [ptr |-> lastp - order[i], size |-> d.bytes_seen],
              searched |-> TRUE, fatal |-> FALSE]

\* back(): ASCII short cut, then the search.  REQUIRES s non-empty.
Back(s, signed) ==
  LET c == CharValue(s[Len(s)], signed)
  IN IF c <= kAsciiMax
     THEN [cp |-> c, view |-> [ptr |-> EndPtr(s) - 1, size |-> 1],
           searched |-> FALSE, fatal |-> FALSE]
     ELSE BackSearch(s, BackOrder)

\* front(): *begin().  REQUIRES s non-empty.
Front32(s) == Deref32(Begin(s))

FrontSv(s) == DerefSv(Begin(s))

\* ----------------------------------------------- forward iteration (loop)
InitIter ==
  /\ sv \in Buffers
  /\ charSigned = FALSE
  /\ ptr = Begin(sv).ptr /\ last = Begin(sv).last /\ dr = Begin(sv).dr
  /\ dest = << >> /\ args = << >> /\ idx = 0
  /\ op = "begin" /\ res = NoRes

\* ++it inside "for (it = begin(); it != end(); ++it)"
Increment ==
  /\ op \in {"begin", "++"}
  /\ ptr /= End(sv).ptr
  /\ LET nx == IterInc(sv, It)
     IN ptr' = nx.ptr /\ last' = nx.last /\ dr' = nx.dr
  /\ idx' = idx + 1
  /\ op' = "++"
  /\ UNCHANGED <<sv, charSigned, dest, args, res>>

NextIter == Increment

SpecIter == InitIter /\ [][NextIter]_vars

SpecIterFair == SpecIter /\ WF_vars(Increment)

\* ------------------------------------------------ character view (calls)
InitView ==
  /\ sv \in Buffers
  /\ charSigned \in BOOLEAN
  /\ ptr = 0 /\ last = EndPtr(sv) /\ dr = DefaultDecodeResult
  /\ dest = << >> /\ args = << >> /\ idx = 0
  /\ op = "view" /\ res = NoRes

ViewUnchanged == UNCHANGED <<sv, charSigned, ptr, last, dr, dest, args, idx>>

\* Utf8AsChars32(sv).front()
CallFront32 ==
  /\ sv /= << >>
  /\ op' = "front32"
  /\ res' = [NoRes EXCEPT !.cp = Front32(sv)]
  /\ ViewUnchanged

\* Utf8AsChars(sv).front()
CallFrontSv ==
  /\ sv /= << >>
  /\ op' = "frontsv"
  /\ res' = [NoRes EXCEPT !.view = FrontSv(sv)]
  /\ ViewUnchanged

\* Utf8AsChars32(sv).back()
CallBack32 ==
  /\ sv /= << >>
  /\ op' = "back32"
  /\ LET b == Back(sv, charSigned)
     IN res' = [NoRes EXCEPT !.cp = b.cp, !.searched = b.searched, !.fatal = b.fatal]
  /\ ViewUnchanged

\* Utf8AsChars(sv).back()
CallBackSv ==
  /\ sv /= << >>
  /\ op' = "backsv"
  /\ LET b == Back(sv, charSigned)
     IN res' = [NoRes EXCEPT !.view = b.view, !.searched = b.searched, !.fatal = b.fatal]
  /\ ViewUnchanged

\* FrontChar(sv)
CallFrontChar ==
  /\ op' = "frontchar"
  /\ res' = [NoRes EXCEPT !.view = FrontChar(sv).first, !.rest = FrontChar(sv).rest]
  /\ ViewUnchanged

NextView == CallFront32 \/ CallFrontSv \/ CallBack32 \/ CallBackSv \/ CallFrontChar

SpecView == InitView /\ [][NextView]_vars

\* --------------------------------------------------- counting (calls)
InitCount ==
  /\ sv \in Buffers
  /\ charSigned = FALSE
  /\ ptr = 0 /\ last = EndPtr(sv) /\ dr = DefaultDecodeResult
  /\ dest = << >> /\ args = << >> /\ idx = 0
  /\ op = "count" /\ res = NoRes

\* CharsLen(sv); after an overrun the count is garbage (0 or the count so far)
CallCharsLen ==
  /\ op' = "CharsLen"
  /\ LET r == CharsLen(sv)
     IN IF r.ub
        THEN \E k \in {0, r.n} : res' = [NoRes EXCEPT !.n = k, !.ub = TRUE]
        ELSE res' = [NoRes EXCEPT !.n = r.n]
  /\ ViewUnchanged

\* AtLeastCharsLen(sv, n); the threshold is kept in idx
CallAtLeastCharsLen ==
  /\ \E n \in 0..MaxN :
       /\ idx' = n
       /\ LET r == AtLeastCharsLen(sv, n)
          IN IF r.ub
             THEN \E k \in {0, r.n} : res' = [NoRes EXCEPT !.n = k, !.ub = TRUE]
             ELSE res' = [NoRes EXCEPT !.n = r.n]
  /\ op' = "AtLeastCharsLen"
  /\ UNCHANGED <<sv, charSigned, ptr, last, dr, dest, args>>

\* Utf8ToUtf32(sv)
CallUtf8ToUtf32 ==
  /\ op' = "Utf8ToUtf32"
  /\ res' = [NoRes EXCEPT !.u32 = Utf8ToUtf32(sv)]
  /\ ViewUnchanged

NextCount == CallCharsLen \/ CallAtLeastCharsLen \/ CallUtf8ToUtf32

SpecCount == InitCount /\ [][NextCount]_vars

\* ------------------------------------------- encode, then iterate (calls)
InitEnc ==
  /\ sv = << >>
  /\ charSigned = FALSE
  /\ ptr = 0 /\ last = 0 /\ dr = DefaultDecodeResult
  /\ dest = << >> /\ args = << >> /\ idx = 0
  /\ op = "dest" /\ res = NoRes

\* StrAppendChar32(&dest, cp)
CallStrAppendChar32 ==
  /\ op = "dest"
  /\ Len(args) < MaxAppend
  /\ \E cp \in CodePoints :
       /\ dest' = StrAppendChar32(dest, cp)
       /\ args' = Append(args, cp)
  /\ UNCHANGED <<sv, charSigned, ptr, last, dr, idx, op, res>>

\* Utf8AsChars32(dest).begin()
CallBegin ==
  /\ op = "dest"
  /\ sv' = dest
  /\ ptr' = Begin(dest).ptr /\ last' = Begin(dest).last /\ dr' = Begin(dest).dr
  /\ idx' = 0
  /\ op' = "begin"
  /\ UNCHANGED <<charSigned, dest, args, res>>

NextEnc == CallStrAppendChar32 \/ CallBegin \/ Increment

SpecEnc == InitEnc /\ [][NextEnc]_vars

\* ================================================================ claims
Min(a, b) == IF a <= b THEN a ELSE b

\* the lead byte at p announces more bytes than the buffer still holds
Truncated(s, p) == Len(s) - p < OneCharLen(s[p + 1])

\* permutations of the candidate sizes 1..4
Perms == {q \in [1..4 -> 1..4] : \A i, j \in 1..4 : q[i] = q[j] => i = j}

\* C1: forward iteration from begin() never moves past last and reaches
\* end() after finitely many increments, whatever the bytes are.
C1_Totality == [](ptr <= last) /\ <>(ptr = End(sv).ptr)

\* a truncated tail has been walked through byte by byte up to end()
C1_Witness ==
  /\ op = "++" /\ ptr = last /\ idx >= 2
  /\ ~dr.ok /\ Truncated(sv, last - 2)

\* C2: the iterator standing on the encoding of a scalar value v decodes
\* it to v, well formed, seeing exactly the bytes the encoder produced.
C2_RoundTrip ==
  (op \in {"begin", "++"} /\ ptr /= last /\ idx + 1 <= Len(args)
     /\ IsScalar(args[idx + 1]))
  => /\ dr.code_point = args[idx + 1]
     /\ dr.ok
     /\ dr.bytes_seen = Len(Encode(args[idx + 1]))
     /\ SubSeq(sv, ptr + 1, ptr + dr.bytes_seen) = Encode(args[idx + 1])

\* the second appended value, a four-byte one, has been decoded
C2_Witness ==
  /\ op = "++" /\ idx = 1 /\ ptr /= last /\ Len(args) >= 2
  /\ args[2] = kMaxCodePoint /\ dr.code_point = kMaxCodePoint /\ dr.bytes_seen = 4

\* C3: a decode that fails, and in particular one on a truncated sequence
\* at the end of the buffer, yields exactly {U+FFFD, 1 byte, ill-formed}.
C3_FailureConsumesOne ==
  (ptr /= last /\ (~dr.ok \/ Truncated(sv, ptr))) => dr = DecodeError

\* iteration arrived at a three-byte lead followed by a single continuation
\* byte at the end of the buffer
C3_Witness ==
  /\ op = "++" /\ ptr /= last /\ last - ptr = 2
  /\ OneCharLen(sv[ptr + 1]) = 3 /\ IsTrailingByte(sv[ptr + 2])
  /\ dr = DecodeError

\* C4: on a valid non-empty buffer back() returns the last element of
\* forward iteration, as a code point and as a byte span.
C4_BackSymmetry ==
  (sv /= << >> /\ IsValidUtf8(sv))
  => /\ op = "back32" => res.cp = Deref32(IterLast(sv, Begin(sv)))
     /\ op = "backsv" => res.view = DerefSv(IterLast(sv, Begin(sv)))

\* C5: FrontChar of a valid non-empty buffer splits it into the first span
\* of forward iteration and the remaining bytes; of the empty buffer, into
\* two empty views.
C5_FrontSymmetry ==
  op = "frontchar"
  => /\ (sv /= << >> /\ IsValidUtf8(sv))
          => /\ res.view = FrontSv(sv)
             /\ res.rest = [ptr |-> res.view.size, size |-> Len(sv) - res.view.size]
     /\ sv = << >> => (res.view.size = 0 /\ res.rest.size = 0)

\* FrontChar split a valid buffer after a multi-byte first character
C5_Witness ==
  /\ op = "frontchar" /\ IsValidUtf8(sv)
  /\ res.view = [ptr |-> 0, size |-> 3] /\ res.rest = [ptr |-> 3, size |-> 1]

\* C6: on a valid buffer CharsLen is the number of code points of the full
\* forward decode.
C6_CountingAgreement ==
  (op = "CharsLen" /\ IsValidUtf8(sv))
  => (~res.ub /\ res.n = Len(Utf8ToUtf32(sv)))

\* a valid buffer with fewer characters than bytes has been counted
C6_Witness ==
  /\ op = "CharsLen" /\ IsValidUtf8(sv) /\ Len(sv) = 4 /\ res.n = 2

\* C7: on a valid buffer AtLeastCharsLen(s, n) = min(CharsLen(s), n).
C7_BoundedCounting ==
  (op = "AtLeastCharsLen" /\ IsValidUtf8(sv))
  => (~res.ub /\ res.n = Min(CharsLen(sv).n, idx))

\* the count stopped at the threshold before the buffer was exhausted
C7_Witness ==
  /\ op = "AtLeastCharsLen" /\ IsValidUtf8(sv)
  /\ idx = 1 /\ res.n = 1 /\ CharsLen(sv).n = 3 /\ Len(sv) = 4

\* C8: every code point handed out in code point mode is a scalar value
\* (U+FFFD included), whatever the bytes are.
C8_ScalarOnly ==
  /\ op \in {"front32", "back32"} => IsScalar(res.cp)
  /\ op = "Utf8ToUtf32" => \A i \in 1..Len(res.u32) : IsScalar(res.u32[i])
  /\ (op \in {"begin", "++"} /\ ptr /= last) => IsScalar(Deref32(It))

\* C9: back() never falls through its loop over the candidate sizes.
C9_BackFindsCandidate ==
  op \in {"back32", "backsv"} => ~res.fatal

\* the search ran on an ill-formed buffer and still accepted a candidate
C9_Witness ==
  /\ op = "back32" /\ res.searched /\ ~res.fatal
  /\ ~IsValidUtf8(sv) /\ res.cp = kReplacementCharacter

\* the search over the sizes in order q agrees with the order 3, 2, 4, 1
\* and with what back() returned when it ran the search
SameAsBackOrder(q) ==
  /\ BackSearch(sv, q).cp = BackSearch(sv, BackOrder).cp
  /\ BackSearch(sv, q).view = BackSearch(sv, BackOrder).view
  /\ (op = "back32" /\ res.searched) => BackSearch(sv, q).cp = res.cp
  /\ (op = "backsv" /\ res.searched) => BackSearch(sv, q).view = res.view

\* C10 as stated: on every non-empty buffer the backward search finds the
\* same character whatever the permutation of the candidate sizes.
C10_AnyOrder ==
  op \in {"back32", "backsv"} => \A q \in Perms : SameAsBackOrder(q)

\* C10 amended: on every non-empty buffer every permutation that tries
\* size 1 last finds the same character as the order 3, 2, 4, 1.
C10_SingleByteLast ==
  op \in {"back32", "backsv"}
  => \A q \in {r \in Perms : r[4] = 1} : SameAsBackOrder(q)

\* the search accepted a four-byte character, the third size it tried
C10_Witness ==
  /\ op = "backsv" /\ res.searched /\ res.view = [ptr |-> 0, size |-> 4]

====
